---- MODULE Spec2Model ----
(***************************************************************************)
(* Model of the twenzetu-safari-web client scripts:                        *)
(*   api.js      apiFetch (timeout, mock fallback) and the api endpoints   *)
(*   regions.js  getAttractionsByRegion, buildRegionSection, init          *)
(*   about.js    loadContributors                                          *)
(* Time is counted in seconds.  Promise continuations are atomic actions.  *)
(***************************************************************************)
EXTENDS Integers, Sequences, FiniteSets, TLC

VARIABLES
    USE_MOCK,       \* api.js: the force-mock flag
    now,            \* wall clock, seconds
    slug,           \* argument of api.getAttraction(slug)
    call,           \* per apiFetch call: the state of the async function
    page,           \* regions.js init(): position of the controller
    container,      \* regions.js: #regions-container (content, or absent)
    writes,         \* regions.js: history of container.innerHTML writes
    highlight,      \* regions.js: ?highlight=<slug>
    notified,       \* regions.js: lucide.createIcons / AOS.refresh calls
    scroll,         \* regions.js: the 150 ms scrollIntoView timer
    attractions,    \* getAttractionsByRegion: input list
    regionName,     \* getAttractionsByRegion: input name
    preview,        \* getAttractionsByRegion: result
    about           \* about.js loadContributors(): state of the loader

vars == <<USE_MOCK, now, slug, call, page, container, writes, highlight,
          notified, scroll, attractions, regionName, preview, about>>

apiVars    == <<USE_MOCK, now, slug, call>>
pageVars   == <<page, container, writes, highlight, notified, scroll>>
filterVars == <<attractions, regionName, preview>>

----------------------------------------------------------------------------
(* Bounds *)

MaxTime == 10
MaxAttractions == 5
MaxContributors == 2

----------------------------------------------------------------------------
(* api.js *)

\* setTimeout(() => controller.abort(), 8000), in seconds
TIMEOUT == 8

Calls == {"detail", "regions", "attractions"}
PageCalls == {"regions", "attractions"}

\* HTTP statuses the server may answer with
Statuses == {200, 404, 500}

\* slugs a caller may ask for; MOCK_DATA.attractionDetails holds some of them
Slugs == {"serengeti", "atlantis"}
MockDetailKeys == {"serengeti"}

\* res.ok
\* variant: the status test dropped
ResOkAlways(status) == TRUE
ResOk(status) == status \in 200..299

\* the fallback producer of api.getAttraction(slug)
\* variant: a missing detail returned as undefined instead of thrown
getAttractionLenient(s) ==
    [threw |-> FALSE, v |-> IF s \in MockDetailKeys THEN "mockDetail" ELSE "undefined"]
getAttraction(s) ==
    IF s \in MockDetailKeys
    THEN [threw |-> FALSE, v |-> "mockDetail"]
    ELSE [threw |-> TRUE, v |-> "NotFoundInMock"]

\* the fallback producer each endpoint hands to apiFetch
mockFallback(c, s) ==
    CASE c = "regions"     -> [threw |-> FALSE, v |-> "mockRegions"]
      [] c = "attractions" -> [threw |-> FALSE, v |-> "mockAttractions"]
      [] OTHER             -> getAttraction(s)

NoResult == [kind |-> "none", v |-> "none"]

IdleCall ==
    [pc |-> "idle", timer |-> "none", deadline |-> 0, issuedAt |-> 0,
     aborted |-> FALSE, lateAbort |-> FALSE, warnings |-> 0, fallbackCalls |-> 0,
     response |-> "none", status |-> 0, body |-> "none", result |-> NoResult]

Settled(r) == r.pc \in {"resolved", "rejected"}

\* `return mockFallback()` inside the async function: the call settles as the
\* producer completes
InvokeFallback(r, fb) ==
    [r EXCEPT !.fallbackCalls = @ + 1,
              !.pc = IF fb.threw THEN "rejected" ELSE "resolved",
              !.result = [kind |-> IF fb.threw THEN "error" ELSE "value", v |-> fb.v]]

\* catch (err) { console.warn(...); return mockFallback(); }
CatchBlock(r, fb) == InvokeFallback([r EXCEPT !.warnings = @ + 1], fb)

\* apiFetch up to its first await
StartCall(r, useMock, fb, t) ==
    IF useMock
    THEN InvokeFallback(r, fb)
    ELSE [r EXCEPT !.pc = "awaitFetch", !.timer = "armed",
                   !.deadline = t + TIMEOUT, !.issuedAt = t]

\* the continuation after `await fetch(...)` fulfils: clearTimeout, the res.ok
\* test, and `return res.json()`
\* variant: clearTimeout dropped
OnResponseKeepTimer(r, status, fb) ==
    LET r1 == [r EXCEPT !.status = status,
                        !.response = IF ResOk(status) THEN "ok" ELSE "httpError"]
    IN  IF ~ResOk(status) THEN CatchBlock(r1, fb) ELSE [r1 EXCEPT !.pc = "awaitBody"]
OnResponse(r, status, fb) ==
    LET r1 == [r EXCEPT !.timer = "cleared", !.status = status,
                        !.response = IF ResOk(status) THEN "ok" ELSE "httpError"]
    IN  IF ~ResOk(status) THEN CatchBlock(r1, fb) ELSE [r1 EXCEPT !.pc = "awaitBody"]

\* `await fetch(...)` rejects (network error, or AbortError after abort())
OnFetchReject(r, err, fb) == CatchBlock([r EXCEPT !.response = err], fb)

\* the promise returned by res.json() fulfils: apiFetch's promise follows it
OnBodyParsed(r) ==
    [r EXCEPT !.pc = "resolved", !.body = "parsed",
              !.result = [kind |-> "value", v |-> "parsedBody"]]

\* the promise returned by res.json() rejects: it was returned, not awaited, so
\* the rejection is apiFetch's result and the catch block is not entered
OnBodyFails(r) ==
    [r EXCEPT !.pc = "rejected", !.body = "unparsable",
              !.result = [kind |-> "error", v |-> "ParseError"]]

\* the timeout callback: controller.abort(); a fetch still in flight rejects
OnTimerFires(r, fb) ==
    LET r1 == [r EXCEPT !.timer = "fired", !.aborted = TRUE,
                        !.lateAbort = Settled(r)]
    IN  IF r.pc = "awaitFetch" THEN OnFetchReject(r1, "abortError", fb) ELSE r1

----------------------------------------------------------------------------
(* api.js: actions *)

FetchResponds(c) ==
    /\ call[c].pc = "awaitFetch"
    /\ \E status \in Statuses :
          call' = [call EXCEPT ![c] = OnResponse(call[c], status, mockFallback(c, slug))]
    /\ UNCHANGED <<USE_MOCK, now, slug, pageVars, filterVars, about>>

FetchRejects(c) ==
    /\ call[c].pc = "awaitFetch"
    /\ call' = [call EXCEPT ![c] = OnFetchReject(call[c], "networkError", mockFallback(c, slug))]
    /\ UNCHANGED <<USE_MOCK, now, slug, pageVars, filterVars, about>>

BodyParsed(c) ==
    /\ call[c].pc = "awaitBody"
    /\ call' = [call EXCEPT ![c] = OnBodyParsed(call[c])]
    /\ UNCHANGED <<USE_MOCK, now, slug, pageVars, filterVars, about>>

BodyFails(c) ==
    /\ call[c].pc = "awaitBody"
    /\ call' = [call EXCEPT ![c] = OnBodyFails(call[c])]
    /\ UNCHANGED <<USE_MOCK, now, slug, pageVars, filterVars, about>>

TimerFires(c) ==
    /\ call[c].timer = "armed"
    /\ now = call[c].deadline
    /\ call' = [call EXCEPT ![c] = OnTimerFires(call[c], mockFallback(c, slug))]
    /\ UNCHANGED <<USE_MOCK, now, slug, pageVars, filterVars, about>>

\* a second passes; an armed timer fires when it is due
Tick ==
    /\ now < MaxTime
    /\ \A c \in Calls : call[c].timer = "armed" => now < call[c].deadline
    /\ now' = now + 1
    /\ UNCHANGED <<USE_MOCK, slug, call, pageVars, filterVars, about>>

\* a page calls api.getAttraction(slug)
GetAttraction ==
    /\ call["detail"].pc = "idle"
    /\ \E s \in Slugs :
          /\ slug' = s
          /\ call' = [call EXCEPT !["detail"] =
                        StartCall(call["detail"], USE_MOCK, mockFallback("detail", s), now)]
    /\ UNCHANGED <<USE_MOCK, now, pageVars, filterVars, about>>

----------------------------------------------------------------------------
(* regions.js: data helpers and builders *)

\* .slice(0, 3)
PREVIEW_LIMIT == 3

RegionNames == {"Arusha", "arusha", "Zanzibar"}
AttractionItems == [slug : {"a1", "a2"}, region_name : RegionNames]

Min(a, b) == IF a < b THEN a ELSE b

\* Array.prototype.slice(from, to) for 0 <= from <= to
Slice(s, from, to) == SubSeq(s, from + 1, Min(to, Len(s)))

\* attractions.filter(a => a.region_name === regionName)
FilterByRegion(atts, name) == SelectSeq(atts, LAMBDA a : a.region_name = name)

\* variant: .slice(0, 3) dropped
getAttractionsByRegionNoLimit(atts, name) == FilterByRegion(atts, name)
getAttractionsByRegion(atts, name) == Slice(FilterByRegion(atts, name), 0, PREVIEW_LIMIT)

\* the parts of a region section the controller and the deep link depend on
buildRegionSection(region, atts, index) ==
    [id        |-> region.slug,
     imageLeft |-> index % 2 = 0,
     plural    |-> region.attraction_count # 1,
     cards     |-> atts]

\* the datasets behind the two list endpoints: the live API's and MOCK_DATA's
ApiRegions ==
    << [slug |-> "arusha", name |-> "Arusha", attraction_count |-> 1],
       [slug |-> "zanzibar", name |-> "Zanzibar", attraction_count |-> 4] >>
MockRegions ==
    << [slug |-> "zanzibar", name |-> "Zanzibar", attraction_count |-> 0] >>
ApiAttractions ==
    << [slug |-> "a1", region_name |-> "Zanzibar"],
       [slug |-> "a2", region_name |-> "Arusha"],
       [slug |-> "a1", region_name |-> "Zanzibar"],
       [slug |-> "a2", region_name |-> "Zanzibar"],
       [slug |-> "a2", region_name |-> "arusha"],
       [slug |-> "a1", region_name |-> "Zanzibar"] >>
MockAttractions ==
    << [slug |-> "a1", region_name |-> "Zanzibar"] >>

RegionsOf(result) ==
    CASE result.v = "parsedBody"  -> ApiRegions
      [] result.v = "mockRegions" -> MockRegions
      [] OTHER                    -> << >>
AttractionsOf(result) ==
    CASE result.v = "parsedBody"      -> ApiAttractions
      [] result.v = "mockAttractions" -> MockAttractions
      [] OTHER                        -> << >>

\* regions.map((region, index) => buildRegionSection(region, preview, index))
RenderSections(regions, atts) ==
    [i \in 1..Len(regions) |->
        buildRegionSection(regions[i], getAttractionsByRegion(atts, regions[i].name), i - 1)]

\* Promise.all over the two apiFetch promises
\* variant: fulfils as soon as one promise fulfils
PromiseAllAny(cs) ==
    IF \E c \in cs : call[c].pc = "resolved" THEN "fulfilled"
    ELSE IF \A c \in cs : call[c].pc = "rejected" THEN "rejected"
    ELSE "pending"
PromiseAll(cs) ==
    IF \E c \in cs : call[c].pc = "rejected" THEN "rejected"
    ELSE IF \A c \in cs : call[c].pc = "resolved" THEN "fulfilled"
    ELSE "pending"

Placeholder == [exists |-> TRUE, kind |-> "placeholder", sections |-> << >>]
FailureMessage == [exists |-> TRUE, kind |-> "failure", sections |-> << >>]
Rendered(secs) == [exists |-> TRUE, kind |-> "sections", sections |-> secs]

\* outcomes of a call into an external script (lucide, AOS)
ExternalOutcomes == {"absent", "ok", "throws"}

----------------------------------------------------------------------------
(* regions.js: init() *)

\* DOMContentLoaded: init() up to `await Promise.all([...])`
PageReady ==
    /\ page = "init"
    /\ IF ~container.exists
       THEN /\ page' = "returned"
            /\ call' = call
       ELSE /\ page' = "Loading"
            /\ call' = [c \in Calls |->
                          IF c \in PageCalls
                          THEN StartCall(call[c], USE_MOCK, mockFallback(c, slug), now)
                          ELSE call[c]]
    /\ UNCHANGED <<USE_MOCK, now, slug, container, writes, highlight, notified, scroll,
                 filterVars, about>>

\* the catch block of init()
PageCatch(w, n) ==
    /\ writes' = Append(w, "failure")
    /\ container' = FailureMessage
    /\ notified' = [n EXCEPT !.errors = @ + 1]
    /\ page' = "Failed"
    /\ scroll' = scroll

\* Promise.all fulfilled: the rest of the try block
RenderStep ==
    /\ page = "Loading"
    /\ PromiseAll(PageCalls) = "fulfilled"
    /\ \E lucideOut \in ExternalOutcomes, aosOut \in ExternalOutcomes :
          LET secs == RenderSections(RegionsOf(call["regions"].result),
                                     AttractionsOf(call["attractions"].result))
              w1   == Append(writes, "sections")
              n1   == IF lucideOut = "absent" THEN notified
                      ELSE [notified EXCEPT !.lucide = @ + 1]
              n2   == IF aosOut = "absent" THEN n1 ELSE [n1 EXCEPT !.aos = @ + 1]
              found == \E i \in 1..Len(secs) : secs[i].id = highlight
          IN  IF lucideOut = "throws" THEN PageCatch(w1, n1)
              ELSE IF aosOut = "throws" THEN PageCatch(w1, n2)
              ELSE /\ writes' = w1
                   /\ container' = Rendered(secs)
                   /\ notified' = n2
                   /\ page' = "Rendered"
                   /\ scroll' = IF highlight # "" /\ found THEN "scheduled" ELSE scroll
    /\ UNCHANGED <<USE_MOCK, now, slug, call, highlight, filterVars, about>>

\* Promise.all rejected: control enters the catch block
FailStep ==
    /\ page = "Loading"
    /\ PromiseAll(PageCalls) = "rejected"
    /\ PageCatch(writes, notified)
    /\ UNCHANGED <<USE_MOCK, now, slug, call, highlight, filterVars, about>>

\* the 150 ms timer: target.scrollIntoView(...)
ScrollFires ==
    /\ scroll = "scheduled"
    /\ scroll' = "done"
    /\ UNCHANGED <<apiVars, page, container, writes, highlight, notified, filterVars, about>>

----------------------------------------------------------------------------
(* about.js: loadContributors() *)

AboutStatuses == {200, 403}

Contributors == [login : {"ann", "bob"}, contributions : {1, 7}]

RECURSIVE SeqsUpTo(_, _)
SeqsUpTo(S, n) ==
    IF n = 0 THEN {<< >>}
    ELSE LET shorter == SeqsUpTo(S, n - 1)
         IN  shorter \cup {Append(q, x) : q \in {t \in shorter : Len(t) = n - 1}, x \in S}

\* one contributor card: login and the pluralised contribution count
ContributorCard(c) ==
    [login |-> c.login, count |-> c.contributions, plural |-> c.contributions # 1]

NoGrid == [kind |-> "placeholder", cards |-> << >>]

IdleLoader ==
    [pc |-> "init", grid |-> NoGrid, response |-> "none", status |-> 0,
     body |-> "none", contributors |-> << >>, warnings |-> 0,
     aos |-> 0, lucide |-> 0, threw |-> FALSE]

\* the catch block: warn, the external-link message, lucide.createIcons()
AboutCatch(a, lucideOut) ==
    [a EXCEPT !.pc = "done",
              !.warnings = @ + 1,
              !.grid = [kind |-> "failure", cards |-> << >>],
              !.lucide = IF lucideOut = "absent" THEN @ ELSE @ + 1,
              !.threw = (lucideOut = "throws")]

\* the try block after `await res.json()` fulfils with the list
AboutRender(a, list, aosOut, lucideOut) ==
    LET a1 == [a EXCEPT !.body = "parsed", !.contributors = list]
    IN  IF Len(list) = 0
        THEN [a1 EXCEPT !.pc = "done", !.grid = [kind |-> "empty", cards |-> << >>]]
        ELSE LET a2 == [a1 EXCEPT
                          !.grid = [kind |-> "populated",
                                    cards |-> [i \in 1..Len(list) |-> ContributorCard(list[i])]],
                          !.aos = IF aosOut = "absent" THEN @ ELSE @ + 1]
             IN  IF aosOut = "throws" THEN AboutCatch(a2, lucideOut)
                 ELSE [a2 EXCEPT !.pc = "done"]

\* DOMContentLoaded: loadContributors() up to `await fetch(...)`
LoadContributors ==
    /\ about.pc = "init"
    /\ \E gridExists \in BOOLEAN :
          about' = [about EXCEPT !.pc = IF gridExists THEN "awaitFetch" ELSE "returned"]
    /\ UNCHANGED <<apiVars, pageVars, filterVars>>

AboutFetchResponds ==
    /\ about.pc = "awaitFetch"
    /\ \E status \in AboutStatuses, lucideOut \in ExternalOutcomes :
          LET a1 == [about EXCEPT !.status = status,
                                  !.response = IF ResOk(status) THEN "ok" ELSE "httpError"]
          IN  about' = IF ~ResOk(status) THEN AboutCatch(a1, lucideOut)
                       ELSE [a1 EXCEPT !.pc = "awaitBody"]
    /\ UNCHANGED <<apiVars, pageVars, filterVars>>

AboutFetchRejects ==
    /\ about.pc = "awaitFetch"
    /\ \E lucideOut \in ExternalOutcomes :
          about' = AboutCatch([about EXCEPT !.response = "networkError"], lucideOut)
    /\ UNCHANGED <<apiVars, pageVars, filterVars>>

AboutBodyParsed ==
    /\ about.pc = "awaitBody"
    /\ \E list \in SeqsUpTo(Contributors, MaxContributors),
          aosOut \in ExternalOutcomes, lucideOut \in ExternalOutcomes :
          about' = AboutRender(about, list, aosOut, lucideOut)
    /\ UNCHANGED <<apiVars, pageVars, filterVars>>

\* `await res.json()` rejects inside the try block
AboutBodyFails ==
    /\ about.pc = "awaitBody"
    /\ \E lucideOut \in ExternalOutcomes :
          about' = AboutCatch([about EXCEPT !.body = "unparsable"], lucideOut)
    /\ UNCHANGED <<apiVars, pageVars, filterVars>>

----------------------------------------------------------------------------
(* getAttractionsByRegion applied to bounded inputs *)

ApplyFilter ==
    /\ ~preview.done
    /\ preview' = [done |-> TRUE, items |-> getAttractionsByRegion(attractions, regionName)]
    /\ UNCHANGED <<apiVars, pageVars, attractions, regionName, about>>

----------------------------------------------------------------------------
(* Specifications *)

InitCalls ==
    /\ now = 0
    /\ slug = ""
    /\ call = [c \in Calls |-> IdleCall]

InitPage ==
    /\ page = "init"
    /\ container = Placeholder
    /\ writes = << >>
    /\ highlight = ""
    /\ notified = [lucide |-> 0, aos |-> 0, errors |-> 0]
    /\ scroll = "none"

InitFilter ==
    /\ attractions = << >>
    /\ regionName = "Arusha"
    /\ preview = [done |-> FALSE, items |-> << >>]

InitAbout == about = IdleLoader

\* a page that calls api.getAttraction(slug)
Init == USE_MOCK \in BOOLEAN /\ InitCalls /\ InitPage /\ InitFilter /\ InitAbout

Next ==
    \/ GetAttraction
    \/ FetchResponds("detail")
    \/ FetchRejects("detail")
    \/ BodyParsed("detail")
    \/ BodyFails("detail")
    \/ TimerFires("detail")
    \/ Tick

Spec == Init /\ [][Next]_vars

\* the regions page
PageInit ==
    /\ USE_MOCK \in BOOLEAN
    /\ InitCalls
    /\ page = "init"
    /\ container \in {Placeholder, [Placeholder EXCEPT !.exists = FALSE]}
    /\ writes = << >>
    /\ highlight \in {"", "zanzibar", "arusha", "nowhere"}
    /\ notified = [lucide |-> 0, aos |-> 0, errors |-> 0]
    /\ scroll = "none"
    /\ InitFilter
    /\ InitAbout

PageNext ==
    \/ PageReady
    \/ \E c \in PageCalls : FetchResponds(c)
    \/ \E c \in PageCalls : FetchRejects(c)
    \/ \E c \in PageCalls : BodyParsed(c)
    \/ \E c \in PageCalls : BodyFails(c)
    \/ \E c \in PageCalls : TimerFires(c)
    \/ Tick
    \/ RenderStep
    \/ FailStep
    \/ ScrollFires

SpecPage == PageInit /\ [][PageNext]_vars

\* the about page
AboutNext ==
    \/ LoadContributors
    \/ AboutFetchResponds
    \/ AboutFetchRejects
    \/ AboutBodyParsed
    \/ AboutBodyFails

\* api.js ships with USE_MOCK = false
AboutInit == USE_MOCK = FALSE /\ InitCalls /\ InitPage /\ InitFilter /\ InitAbout

SpecAbout == AboutInit /\ [][AboutNext]_vars

\* getAttractionsByRegion over every bounded input
FilterInit ==
    /\ USE_MOCK = FALSE
    /\ InitCalls
    /\ InitPage
    /\ attractions \in SeqsUpTo(AttractionItems, MaxAttractions)
    /\ regionName \in RegionNames
    /\ preview = [done |-> FALSE, items |-> << >>]
    /\ InitAbout

FilterNext == ApplyFilter

SpecFilter == FilterInit /\ [][FilterNext]_vars

----------------------------------------------------------------------------
(* Claims about apiFetch, checked under Spec *)

Range(q) == {q[i] : i \in 1..Len(q)}

\* how a call settles when it hands over to the fallback producer fb
FallbackCompletion(fb) == [kind |-> IF fb.threw THEN "error" ELSE "value", v |-> fb.v]

\* C1: with the force-mock flag unset, a non-success status or a failed network
\* request makes the call end as the fallback producer does (resolving to its
\* value when it returns one) with exactly one warning logged; a successful
\* response whose body parses resolves to the parsed body, and a successful
\* response never invokes the fallback producer nor logs a warning.
C1_FallbackOnFailureElseBody ==
    ~USE_MOCK =>
      \A c \in Calls :
        LET r  == call[c]
            fb == mockFallback(c, slug)
            failedStatus == r.status \in Statuses /\ ~(r.status \in 200..299)
            okStatus     == r.status \in 200..299
        IN  /\ (failedStatus \/ r.response = "networkError") =>
                 /\ Settled(r)
                 /\ r.warnings = 1
                 /\ r.fallbackCalls = 1
                 /\ r.result = FallbackCompletion(fb)
                 /\ (~fb.threw => r.pc = "resolved" /\ r.result.v = fb.v)
            /\ okStatus => r.fallbackCalls = 0 /\ r.warnings = 0
            /\ (okStatus /\ r.body = "parsed") =>
                 r.pc = "resolved" /\ r.result = [kind |-> "value", v |-> "parsedBody"]

\* C1 witness: an HTTP 500 answered by the fallback value with one warning
C1_Witness ==
    /\ ~USE_MOCK
    /\ call["detail"].status = 500
    /\ call["detail"].pc = "resolved"
    /\ call["detail"].result.v = "mockDetail"
    /\ call["detail"].warnings = 1

\* C2: a success status whose body fails to parse is recovered like the other
\* failures: one warning, the fallback producer's result, no parse error for
\* the caller.
C2_ParseErrorRecovers ==
    \A c \in Calls :
      LET r == call[c]
      IN  r.body = "unparsable" =>
            /\ r.warnings = 1
            /\ r.fallbackCalls = 1
            /\ r.result = FallbackCompletion(mockFallback(c, slug))

\* C3: no call whose fallback producer works is still pending more than 8
\* seconds after it was issued, whether it waits for the response or for the
\* body.
C3_NoCallPendingPastTimeout ==
    \A c \in Calls :
      LET r == call[c]
      IN  (r.pc \in {"awaitFetch", "awaitBody"} /\ ~mockFallback(c, slug).threw)
            => now - r.issuedAt <= 8

\* C4: when the fallback producer of getAttraction(slug) throws because slug is
\* absent from the mock attraction details, apiFetch rejects with that failure
\* and yields no value, after a failed network attempt as well as under the
\* force-mock flag.
C4_FallbackFailurePropagates ==
    LET r == call["detail"]
    IN  (r.fallbackCalls >= 1 /\ slug \notin MockDetailKeys) =>
          /\ r.pc = "rejected"
          /\ r.result = [kind |-> "error", v |-> "NotFoundInMock"]
          /\ r.fallbackCalls = 1

\* C4 witness: the producer throws after a failed network attempt
C4_Witness ==
    /\ ~USE_MOCK
    /\ slug = "atlantis"
    /\ call["detail"].response \in {"httpError", "networkError", "abortError"}
    /\ call["detail"].pc = "rejected"
    /\ call["detail"].warnings = 1

\* C10 as stated: once a call has settled its timer is no longer armed and no
\* abort fires afterwards, on every path.
C10_TimerCancelledWhenSettled ==
    \A c \in Calls :
      Settled(call[c]) => call[c].timer # "armed" /\ ~call[c].lateAbort

\* C10 amended: a call that settled after the network request produced a
\* response (of any status) has its timer cancelled and is never aborted; a
\* settled call whose timer is still armed, or that was aborted after it
\* settled, is one whose network request rejected before the timeout.
C10_TimerCancelledAfterResponse ==
    \A c \in Calls :
      LET r == call[c]
      IN  /\ (r.status \in Statuses) => r.timer = "cleared" /\ ~r.aborted
          /\ (Settled(r) /\ r.timer = "armed") => r.response = "networkError"
          /\ r.lateAbort => r.response = "networkError" /\ r.timer = "fired"
          /\ (Settled(r) /\ r.response = "networkError") => r.timer \in {"armed", "fired"}

\* C10 witness: a settled call whose timer was cancelled on the response, seen
\* after the moment the timer would have fired
C10_Witness ==
    /\ Settled(call["detail"])
    /\ call["detail"].status = 404
    /\ call["detail"].timer = "cleared"
    /\ now > call["detail"].deadline

----------------------------------------------------------------------------
(* Claims about the regions page, checked under SpecPage *)

PageDone == page \in {"Rendered", "Failed"}

\* C5: the controller leaves Loading only after both fetches have settled.
C5_LeavesLoadingAfterBothSettle ==
    PageDone => \A c \in PageCalls : Settled(call[c])

\* C6: a finished load has written the container exactly once, so the failure
\* message is never written over rendered sections.
C6_ContainerWrittenOnce ==
    PageDone => Len(writes) = 1

\* C7: when one of the two fetches ends in failure, no region section is ever
\* written, the icon and animation subsystems are not notified, no scroll is
\* scheduled, and the load ends showing only the failure message.
C7_AggregateFailureShowsOnlyFailure ==
    (\E c \in PageCalls : call[c].pc = "rejected") =>
      /\ "sections" \notin Range(writes)
      /\ container.kind # "sections"
      /\ notified.lucide = 0 /\ notified.aos = 0
      /\ scroll = "none"
      /\ PageDone => /\ page = "Failed"
                     /\ container = FailureMessage
                     /\ writes = << "failure" >>

\* C7 witness: one fetch resolved, the other rejected, the page failed
C7_Witness ==
    /\ page = "Failed"
    /\ \E c \in PageCalls, d \in PageCalls :
          call[c].pc = "resolved" /\ call[d].pc = "rejected"

----------------------------------------------------------------------------
(* Claim about getAttractionsByRegion, checked under SpecFilter *)

MatchIdx == {i \in 1..Len(attractions) : attractions[i].region_name = regionName}

\* the index of the k-th matching item of the input list
KthMatch(k) == CHOOSE i \in MatchIdx : Cardinality({j \in MatchIdx : j <= i}) = k

\* C8: the result has at most 3 items, each with region_name equal to the given
\* name, and is the first min(3, number of matches) matching items in input
\* order.
C8_FirstThreeMatchesInOrder ==
    preview.done =>
      /\ Len(preview.items) <= 3
      /\ \A k \in 1..Len(preview.items) : preview.items[k].region_name = regionName
      /\ Len(preview.items) = Min(3, Cardinality(MatchIdx))
      /\ \A k \in 1..Len(preview.items) : preview.items[k] = attractions[KthMatch(k)]

\* C8 witness: more than 3 matches, the first item of the list not among them
C8_Witness ==
    /\ preview.done
    /\ Cardinality(MatchIdx) > 3
    /\ 1 \notin MatchIdx
    /\ Len(preview.items) = 3

----------------------------------------------------------------------------
(* Claim about the contributor loader, checked under SpecAbout *)

\* C9: a finished load shows the populated list when the fetch succeeded with
\* contributors, the empty-state message when it succeeded with none, and the
\* external-link message when the fetch failed; a successful fetch never ends
\* on the failure message.
C9_OutcomeDeterminedByFetch ==
    about.pc = "done" =>
      LET ok == about.response = "ok" /\ about.body = "parsed"
      IN  /\ (ok /\ Len(about.contributors) > 0) => about.grid.kind = "populated"
          /\ (ok /\ Len(about.contributors) = 0) => about.grid.kind = "empty"
          /\ ~ok => about.grid.kind = "failure"

====
